---- MODULE Spec2Model ----
(***************************************************************************)
(* A model of the generic Tantivy FFI crate (src/src/lib.rs, src/src/ffi.rs): *)
(* the JSON schema compiler, the document mapper, the query compiler, the  *)
(* query executor and the index session with its writer lock and reader    *)
(* snapshot.  The index engine itself (tantivy 0.22) is not part of the    *)
(* crate; each engine primitive is modelled at the call site that uses it, *)
(* by the engine's documented contract.                                    *)
(***************************************************************************)
EXTENDS Integers, Sequences, FiniteSets, TLC

VARIABLES
    build,          \* "debug" | "release": whether `v + 1` is overflow-checked
    fs,             \* the directory at `path`: sidecar file and index meta
    disk,           \* documents committed to the index directory, in commit order
    handle,         \* "null" | "live" | "aborted": the session behind the FFI handle
    field_map,      \* TantivyIndex.field_map
    search_fields,  \* TantivyIndex.search_fields
    writer,         \* documents buffered in the IndexWriter, not yet committed
    wlock,          \* holder of Mutex<IndexWriter> (0: free)
    reader,         \* the searcher the IndexReader currently hands out
    opstamp,        \* the writer's operation stamp: one per accepted document
    pc,             \* per thread: where the thread is inside its FFI call
    call,           \* per thread: the arguments of the call in progress
    held,           \* per thread: the searcher acquired by exec
    top,            \* per thread: (total_count, top docs) collected by exec
    ret,            \* per thread: what the last FFI call returned
    hist,           \* history: what was true when calls started and returned
    pager           \* a client paging through one query

vars == <<build, fs, disk, handle, field_map, search_fields, writer, wlock,
          reader, opstamp, pc, call, held, top, ret, hist, pager>>

-----------------------------------------------------------------------------
(* Bounds of the model.                                                    *)

MaxAdds == 3
MaxConcAdds == 2
MaxSeqAdds == 2
MaxRangeAdds == 2
MaxMatchAdds == 2
MaxFuzzyAdds == 1
MaxLifeAdds == 2
MaxDocAdds == 1
MaxTripAdds == 1
MaxPage == 3
MaxTermLen == 2

Threads == {1, 2}

-----------------------------------------------------------------------------
(* i64: two's complement in four 16-bit limbs, most significant first.     *)

Limb == 65536

I64Max == <<(Limb \div 2) - 1, Limb - 1, Limb - 1, Limb - 1>>
I64Min == <<Limb \div 2, 0, 0, 0>>

I64Of(n) ==
    IF n >= 0 THEN <<0, 0, 0, n>>
    ELSE <<Limb - 1, Limb - 1, Limb - 1, Limb + n>>

I64Key(x) == <<(x[1] + (Limb \div 2)) % Limb, x[2], x[3], x[4]>>

LexLess(a, b) ==
    \E i \in 1..4 : a[i] < b[i] /\ \A j \in 1..(i - 1) : a[j] = b[j]

I64Lt(x, y) == LexLess(I64Key(x), I64Key(y))
I64Le(x, y) == x = y \/ I64Lt(x, y)

\* x + 1 modulo 2^64 (wrapping_add(1)).
I64WrappingInc(x) ==
    IF x[4] < Limb - 1 THEN <<x[1], x[2], x[3], x[4] + 1>>
    ELSE IF x[3] < Limb - 1 THEN <<x[1], x[2], x[3] + 1, 0>>
    ELSE IF x[2] < Limb - 1 THEN <<x[1], x[2] + 1, 0, 0>>
    ELSE <<(x[1] + 1) % Limb, 0, 0, 0>>

\* Whether an i64 is one of the small values I64Of produces, and that value.
I64IsSmall(x) ==
    \/ x[1] = 0 /\ x[2] = 0 /\ x[3] = 0 /\ x[4] < Limb \div 2
    \/ x[1] = Limb - 1 /\ x[2] = Limb - 1 /\ x[3] = Limb - 1 /\ x[4] >= Limb \div 2
I64Small(x) == IF x[1] = 0 THEN x[4] ELSE x[4] - Limb

-----------------------------------------------------------------------------
(* f64: a finite value is h/2 for a small integer h (so halves are exact);  *)
(* "pos_huge" and "neg_huge" stand for finite values of magnitude >= 2^63. *)

F64Fin(h) == [cls |-> "fin", h |-> h]
F64PosHuge == [cls |-> "pos_huge", h |-> 0]
F64NegHuge == [cls |-> "neg_huge", h |-> 0]

\* i64 -> f64 (`n as f64`): exact for the small values, 2^63-scale otherwise.
F64OfI64(x) ==
    IF I64IsSmall(x) THEN F64Fin(2 * I64Small(x))
    ELSE IF I64Lt(x, I64Of(0)) THEN F64NegHuge ELSE F64PosHuge

\* f64 -> i64 (`n as i64`): truncates toward zero and saturates at the ends.
F64AsI64(f) ==
    CASE f.cls = "pos_huge" -> I64Max
      [] f.cls = "neg_huge" -> I64Min
      [] OTHER -> I64Of(IF f.h >= 0 THEN f.h \div 2 ELSE -((-f.h) \div 2))

-----------------------------------------------------------------------------
(* Text: a string is a sequence of characters.  "e/" stands for U+00E9 and *)
(* "E/" for U+00C9 (two UTF-8 bytes each); every other character is ASCII. *)

IsWhitespace(c) == c = " "
NonAlphanumeric == {" ", "-", "!"}
IsAlphanumeric(c) == c \notin NonAlphanumeric
Utf8Len(c) == IF c \in {"e/", "E/"} THEN 2 ELSE 1

Range(s) == {s[i] : i \in 1..Len(s)}

\* char::to_lowercase
LowerChar(c) ==
    CASE c = "A" -> "a" [] c = "B" -> "b" [] c = "H" -> "h"
      [] c = "E/" -> "e/" [] OTHER -> c

\* str::to_lowercase
ToLowercase(s) == [i \in 1..Len(s) |-> LowerChar(s[i])]

RECURSIVE FilterSeq(_, _)
FilterSeq(s, keep) ==
    IF s = <<>> THEN <<>>
    ELSE (IF Head(s) \in keep THEN <<Head(s)>> ELSE <<>>) \o FilterSeq(Tail(s), keep)

\* str::len: the length in UTF-8 bytes.
RECURSIVE ByteLen(_)
ByteLen(s) == IF s = <<>> THEN 0 ELSE Utf8Len(Head(s)) + ByteLen(Tail(s))

\* The maximal runs of characters of s that are not in seps.
RECURSIVE SplitFrom(_, _, _)
SplitFrom(s, cur, seps) ==
    IF s = <<>> THEN (IF cur = <<>> THEN <<>> ELSE <<cur>>)
    ELSE IF Head(s) \in seps
         THEN (IF cur = <<>> THEN <<>> ELSE <<cur>>) \o SplitFrom(Tail(s), <<>>, seps)
         ELSE SplitFrom(Tail(s), Append(cur, Head(s)), seps)

\* str::split_whitespace
SplitWhitespace(s) == SplitFrom(s, <<>>, {c \in Range(s) : IsWhitespace(c)})

RECURSIVE SeqsUpTo(_, _)
SeqsUpTo(S, n) ==
    IF n = 0 THEN {<<>>}
    ELSE LET shorter == SeqsUpTo(S, n - 1)
         IN shorter \cup {Append(s, x) : s \in {r \in shorter : Len(r) = n - 1}, x \in S}

\* Every ordering of a finite set (the iteration orders a HashMap can have).
RECURSIVE Orderings(_)
Orderings(S) ==
    IF S = {} THEN {<<>>}
    ELSE UNION {{<<x>> \o r : r \in Orderings(S \ {x})} : x \in S}

-----------------------------------------------------------------------------
(* Option<T> and serde_json::Value.                                         *)

None == [some |-> FALSE]
Some(v) == [some |-> TRUE, v |-> v]

JString(s) == [t |-> "string", s |-> s]
JInt(x) == [t |-> "int", i |-> x]          \* an integer that fits i64
JBigUint == [t |-> "u64"]                  \* an integer in i64::MAX+1 ..= u64::MAX
JFloat(f) == [t |-> "float", f |-> f]
JBool(b) == [t |-> "bool", b |-> b]
JNull == [t |-> "null"]
JArray == [t |-> "array"]

\* Value::as_str, Value::as_i64, Value::as_f64
AsStr(v) == IF v.t = "string" THEN Some(v.s) ELSE None
AsI64(v) == IF v.t = "int" THEN Some(v.i) ELSE None
AsF64(v) ==
    CASE v.t = "int" -> Some(F64OfI64(v.i))
      [] v.t = "u64" -> Some(F64PosHuge)
      [] v.t = "float" -> Some(v.f)
      [] OTHER -> None

-----------------------------------------------------------------------------
(* Schema definition (FieldDef, SchemaDef) and its JSON text.  A JSON text  *)
(* is "malformed" (serde rejects it: bad syntax, or a wrong shape such as a *)
(* missing name) or an object whose optional keys may be absent.            *)

yes == TRUE
default_tok == "default"

FieldDef(name, ty, stored, indexed, fast, tok) ==
    [name |-> name, field_type |-> ty, stored |-> stored, indexed |-> indexed,
     fast |-> fast, tokenizer |-> tok]

Opt(o, dflt) == IF o.some THEN o.v ELSE dflt

\* serde: FieldDef with its #[serde(default)] attributes.
ParseFieldDef(j) ==
    FieldDef(j.name, j.type, Opt(j.stored, yes), Opt(j.indexed, yes),
             Opt(j.fast, FALSE), Opt(j.tokenizer, default_tok))

\* serde_json::from_str::<SchemaDef>
ParseSchemaDef(text) ==
    IF text.k # "object" THEN [ok |-> FALSE]
    ELSE [ok |-> TRUE,
          def |-> [fields |-> [i \in 1..Len(text.fields) |-> ParseFieldDef(text.fields[i])],
                   search_fields |-> Opt(text.search_fields, <<>>)]]

\* The engine options build_schema derives for one field.
FieldEntry(fd) ==
    IF fd.field_type = "text"
    THEN [name |-> fd.name, type |-> "text", stored |-> fd.stored, fast |-> fd.fast,
          indexing |-> IF fd.indexed
                       THEN Some([tokenizer |-> CASE fd.tokenizer = "raw" -> "raw"
                                                  [] fd.tokenizer = "en_stem" -> "en_stem"
                                                  [] OTHER -> "default",
                                  record |-> IF fd.tokenizer = "raw" THEN "Basic"
                                             ELSE "WithFreqsAndPositions"])
                       ELSE None]
    ELSE [name |-> fd.name, type |-> fd.field_type, stored |-> fd.stored, fast |-> fd.fast,
          indexing |-> IF fd.indexed THEN Some([tokenizer |-> "", record |-> "Basic"])
                       ELSE None]

FieldTypes == {"text", "i64", "f64"}

\* build_schema: "err" on an unknown type, "panic" when the engine's schema
\* builder meets a field name twice, else the engine schema and the catalog.
BuildSchema(def) ==
    LET n == Len(def.fields)
        bad == {i \in 1..n : def.fields[i].field_type \notin FieldTypes}
        dup == {i \in 1..n : \E j \in 1..(i - 1) : def.fields[j].name = def.fields[i].name}
        first(S) == CHOOSE i \in S : \A j \in S : i <= j
    IN IF bad # {} /\ (dup = {} \/ first(bad) <= first(dup)) THEN [ok |-> "err"]
       ELSE IF dup # {} THEN [ok |-> "panic"]
       ELSE [ok |-> "ok",
             schema |-> [i \in 1..n |-> FieldEntry(def.fields[i])],
             fm |-> [name \in {def.fields[i].name : i \in 1..n} |->
                       LET i == CHOOSE i \in 1..n : def.fields[i].name = name
                       IN [field |-> i - 1, fd |-> def.fields[i]]]]

\* resolve_search_fields: every vector the call can return (the derived
\* default follows the HashMap's iteration order, which is unspecified).
ResolveSearchFields(def, fm) ==
    IF def.search_fields # <<>>
    THEN {[i \in 1..Len(known) |-> fm[known[i]].field] :
            known \in {FilterSeq(def.search_fields, DOMAIN fm)}}
    ELSE Orderings({fm[name].field : name \in
            {nm \in DOMAIN fm : /\ fm[nm].fd.field_type = "text"
                                /\ fm[nm].fd.indexed
                                /\ fm[nm].fd.tokenizer # "raw"}})

-----------------------------------------------------------------------------
(* Document mapper: add_doc's translation of a JSON object into an engine   *)
(* document.  A document text is "malformed" (not JSON), a "value" (JSON,   *)
(* but not an object) or an "object" mapping keys to JSON values.           *)

VStr(s) == [ty |-> "Str", s |-> s]
VI64(x) == [ty |-> "I64", i |-> x]
VF64(f) == [ty |-> "F64", f |-> f]

\* serde_json::from_str::<HashMap<String, Value>>
ParseDoc(text) == IF text.k = "object" THEN Some(text.m) ELSE None

\* The value add_doc adds for one key of the object, if any.
MapField(fd, val) ==
    CASE fd.field_type = "text" ->
            (IF AsStr(val).some THEN Some(VStr(AsStr(val).v)) ELSE None)
      [] fd.field_type = "i64" ->
            (IF AsI64(val).some THEN Some(VI64(AsI64(val).v))
             ELSE IF AsF64(val).some THEN Some(VI64(F64AsI64(AsF64(val).v)))
             ELSE None)
      [] fd.field_type = "f64" ->
            (IF AsF64(val).some THEN Some(VF64(AsF64(val).v)) ELSE None)
      [] OTHER -> None

\* The TantivyDocument add_doc builds: field id -> value.
MapDoc(fm, map) ==
    LET hit == {name \in DOMAIN map \cap DOMAIN fm : MapField(fm[name].fd, map[name]).some}
        nameOf(f) == CHOOSE name \in hit : fm[name].field = f
    IN [f \in {fm[name].field : name \in hit} |->
           MapField(fm[nameOf(f)].fd, map[nameOf(f)]).v]

-----------------------------------------------------------------------------
(* Query DSL (QueryDef) and its JSON text.                                  *)

default_limit == 100
default_dist == 2

\* serde: one QueryDef node with its #[serde(default)] attributes.
RECURSIVE ParseQueryDef(_)
ParseQueryDef(j) ==
    LET lim == Opt(j.limit, default_limit)
        off == Opt(j.offset, 0)
        subs(o) == LET s == Opt(o, <<>>) IN [i \in 1..Len(s) |-> ParseQueryDef(s[i])]
    IN CASE j.type = "all" ->
              [type |-> "all", limit |-> lim, offset |-> off]
         [] j.type = "term_match" ->
              [type |-> "term_match", field |-> j.field, value |-> j.value,
               limit |-> lim, offset |-> off]
         [] j.type = "range_i64" ->
              [type |-> "range_i64", field |-> j.field, min |-> j.min, max |-> j.max,
               limit |-> lim, offset |-> off]
         [] j.type = "fuzzy" ->
              [type |-> "fuzzy", term |-> j.term, distance |-> Opt(j.distance, default_dist),
               fields |-> Opt(j.fields, <<>>), limit |-> lim, offset |-> off]
         [] j.type = "bool" ->
              [type |-> "bool", must |-> subs(j.must), should |-> subs(j.should),
               must_not |-> subs(j.must_not), limit |-> lim, offset |-> off]

\* serde_json::from_str::<QueryDef>
ParseQuery(text) == IF text.k = "query" THEN Some(ParseQueryDef(text.q)) ELSE None

\* QueryDef::limit, QueryDef::offset
QLimit(qd) == qd.limit
QOffset(qd) == qd.offset

\* resolve_fields
ResolveFields(fm, sf, names) ==
    IF names = <<>> THEN sf
    ELSE LET known == FilterSeq(names, DOMAIN fm)
         IN [i \in 1..Len(known) |-> fm[known[i]].field]

\* The words a fuzzy query keeps: split on whitespace, lower-cased, only the
\* alphanumeric characters, more than one byte long.
FuzzyWords(term) ==
    LET raw == SplitWhitespace(term)
        clean == [i \in 1..Len(raw) |->
                    FilterSeq(ToLowercase(raw[i]),
                              {c \in Range(ToLowercase(raw[i])) : IsAlphanumeric(c)})]
    IN FilterSeq(clean, {w \in Range(clean) : ByteLen(w) > 1})

\* Adaptive distance: short words use distance 1.
ShortWordBytes == 5
EffDist(word, distance) ==
    IF ByteLen(word) <= ShortWordBytes
    THEN (IF distance < 1 THEN distance ELSE 1)
    ELSE distance

BooleanQuery(clauses) == [k |-> "BooleanQuery", clauses |-> clauses]
Clause(occur, q) == [occur |-> occur, q |-> q]

\* `max.map(|v| v + 1)`: overflow panics where overflow checks are on and
\* wraps where they are off.
RangeUpper(bld, max) ==
    IF ~max.some THEN [ok |-> "ok", hi |-> I64Max]
    ELSE IF max.v = I64Max /\ bld = "debug" THEN [ok |-> "panic"]
    ELSE [ok |-> "ok", hi |-> I64WrappingInc(max.v)]

\* Which Occur build_query gives the sub-queries of each list of a bool query.
OccurOfMust == "Must"
OccurOfShould == "Should"
\* A slip: must_not sub-queries combined as optional ones.
OccurOfMustNotAsShould == "Should"

\* Occur::MustNot for the must_not list.
OccurOfMustNot == "MustNot"

\* The value a term_match query searches for.
TermValue(fd, value) ==
    CASE fd.field_type = "text" -> VStr(Opt(AsStr(value), <<>>))
      [] fd.field_type = "i64" -> VI64(Opt(AsI64(value), I64Of(0)))
      [] fd.field_type = "f64" -> VF64(Opt(AsF64(value), F64Fin(0)))

\* build_query: [ok |-> "ok", q |-> engine query], "err" or "panic".
RECURSIVE BuildQuery(_, _, _, _)
RECURSIVE BuildClauses(_, _, _, _, _)
BuildClauses(fm, sf, bld, occur, subs) ==
    IF subs = <<>> THEN [ok |-> "ok", clauses |-> <<>>]
    ELSE LET h == BuildQuery(fm, sf, bld, Head(subs))
         IN IF h.ok # "ok" THEN [ok |-> h.ok]
            ELSE LET r == BuildClauses(fm, sf, bld, occur, Tail(subs))
                 IN IF r.ok # "ok" THEN r
                    ELSE [ok |-> "ok", clauses |-> <<Clause(occur, h.q)>> \o r.clauses]
BuildQuery(fm, sf, bld, qd) ==
    CASE qd.type = "all" -> [ok |-> "ok", q |-> [k |-> "AllQuery"]]
      [] qd.type = "fuzzy" ->
            LET f == ResolveFields(fm, sf, qd.fields)
                words == FuzzyWords(qd.term)
                perField(word) ==
                    [i \in 1..Len(f) |->
                        Clause("Should", [k |-> "FuzzyTermQuery", field |-> f[i], text |-> word,
                                          distance |-> EffDist(word, qd.distance),
                                          transposition_cost_one |-> TRUE])]
            IN [ok |-> "ok",
                q |-> BooleanQuery([i \in 1..Len(words) |->
                                      Clause("Must", BooleanQuery(perField(words[i])))])]
      [] qd.type = "term_match" ->
            IF qd.field \notin DOMAIN fm THEN [ok |-> "err"]
            ELSE [ok |-> "ok",
                  q |-> [k |-> "TermQuery", field |-> fm[qd.field].field,
                         term |-> TermValue(fm[qd.field].fd, qd.value)]]
      [] qd.type = "range_i64" ->
            LET up == RangeUpper(bld, qd.max)
            IN IF up.ok # "ok" THEN [ok |-> up.ok]
               ELSE [ok |-> "ok",
                     q |-> [k |-> "RangeQuery", field |-> qd.field,
                            lo |-> Opt(qd.min, I64Min), hi |-> up.hi]]
      [] qd.type = "bool" ->
            LET m == BuildClauses(fm, sf, bld, OccurOfMust, qd.must)
                s == BuildClauses(fm, sf, bld, OccurOfShould, qd.should)
                n == BuildClauses(fm, sf, bld, OccurOfMustNot, qd.must_not)
            IN IF m.ok # "ok" THEN [ok |-> m.ok]
               ELSE IF s.ok # "ok" THEN [ok |-> s.ok]
               ELSE IF n.ok # "ok" THEN [ok |-> n.ok]
               ELSE [ok |-> "ok", q |-> BooleanQuery(m.clauses \o s.clauses \o n.clauses)]

-----------------------------------------------------------------------------
(* The engine's side of a search: what a compiled query matches, how hits   *)
(* are scored and ordered, and what the collectors return.                  *)

FdOf(fm, f) == fm[CHOOSE name \in DOMAIN fm : fm[name].field = f].fd

\* The terms the engine indexes for a text value: the raw tokenizer keeps the
\* value whole; the default one splits at non-alphanumeric characters and
\* lower-cases.
Tokens(tokenizer, s) ==
    CASE tokenizer = "raw" -> {s}
      [] tokenizer = "default" ->
            {ToLowercase(w) : w \in Range(SplitFrom(s, <<>>, NonAlphanumeric))}

IndexedTerms(fd, v) ==
    IF fd.field_type = "text" THEN {VStr(w) : w \in Tokens(fd.tokenizer, v.s)} ELSE {v}

\* Whether a and b are within edit distance k, a transposition of two
\* neighbours costing one (FuzzyTermQuery::new(.., .., true)).
RECURSIVE WithinDist(_, _, _)
WithinDist(a, b, k) ==
    IF k < 0 THEN FALSE
    ELSE IF a = <<>> THEN Len(b) <= k
    ELSE IF b = <<>> THEN Len(a) <= k
    ELSE IF Head(a) = Head(b) THEN WithinDist(Tail(a), Tail(b), k)
    ELSE \/ WithinDist(Tail(a), b, k - 1)
         \/ WithinDist(a, Tail(b), k - 1)
         \/ WithinDist(Tail(a), Tail(b), k - 1)
         \/ /\ Len(a) >= 2 /\ Len(b) >= 2 /\ a[1] = b[2] /\ a[2] = b[1]
            /\ WithinDist(Tail(Tail(a)), Tail(Tail(b)), k - 1)

\* The largest distance the engine's Levenshtein automaton is built for.
MaxFuzzyDistance == 2

\* Whether running the query fails in the engine.
RECURSIVE QueryFails(_, _)
QueryFails(fm, q) ==
    CASE q.k = "AllQuery" -> FALSE
      [] q.k = "TermQuery" -> ~FdOf(fm, q.field).indexed
      [] q.k = "RangeQuery" ->
            \/ q.field \notin DOMAIN fm
            \/ fm[q.field].fd.field_type # "i64"
            \/ ~fm[q.field].fd.indexed /\ ~fm[q.field].fd.fast
      [] q.k = "FuzzyTermQuery" ->
            \/ q.distance > MaxFuzzyDistance
            \/ FdOf(fm, q.field).field_type # "text"
            \/ ~FdOf(fm, q.field).indexed
      [] q.k = "BooleanQuery" ->
            \E i \in 1..Len(q.clauses) : QueryFails(fm, q.clauses[i].q)

\* Whether the query matches a document (fv: field id -> value).
RECURSIVE Matches(_, _, _)
Matches(fm, q, fv) ==
    CASE q.k = "AllQuery" -> TRUE
      [] q.k = "TermQuery" ->
            q.field \in DOMAIN fv /\ q.term \in IndexedTerms(FdOf(fm, q.field), fv[q.field])
      [] q.k = "RangeQuery" ->
            LET f == fm[q.field].field
            IN f \in DOMAIN fv /\ I64Le(q.lo, fv[f].i) /\ I64Lt(fv[f].i, q.hi)
      [] q.k = "FuzzyTermQuery" ->
            /\ q.field \in DOMAIN fv
            /\ \E w \in Tokens(FdOf(fm, q.field).tokenizer, fv[q.field].s) :
                  WithinDist(w, q.text, q.distance)
      [] q.k = "BooleanQuery" ->
            LET of(occur) == {i \in 1..Len(q.clauses) : q.clauses[i].occur = occur}
                hit(i) == Matches(fm, q.clauses[i].q, fv)
            IN /\ of("Must") \cup of("Should") # {}
               /\ \A i \in of("Must") : hit(i)
               /\ of("Must") = {} => \E i \in of("Should") : hit(i)
               /\ \A i \in of("MustNot") : ~hit(i)

RECURSIVE SumOver(_, _)
SumOver(S, f) ==
    IF S = {} THEN 0
    ELSE LET x == CHOOSE x \in S : TRUE IN f[x] + SumOver(S \ {x}, f)

\* The score of a matching document, in abstract units: 1 for the constant
\* scorers, one positive value for every term hit (BM25 is the engine's),
\* the sum over the matching must and should clauses for a boolean query.
TermScore == 2
RECURSIVE Score(_, _, _)
Score(fm, q, fv) ==
    CASE q.k = "TermQuery" -> TermScore
      [] q.k = "BooleanQuery" ->
            LET pos == {i \in 1..Len(q.clauses) :
                          /\ q.clauses[i].occur \in {"Must", "Should"}
                          /\ Matches(fm, q.clauses[i].q, fv)}
            IN SumOver(pos, [i \in pos |-> Score(fm, q.clauses[i].q, fv)])
      [] OTHER -> 1

\* A slip: the page taken from the first rank whatever the offset.
CollectFromStart(fm, docs, q, limit, offset) ==
    LET hits == {i \in 1..Len(docs) : Matches(fm, q, docs[i].fv)}
        sc(i) == Score(fm, q, docs[i].fv)
        before(j, i) == sc(j) > sc(i) \/ (sc(j) = sc(i) /\ j < i)
        rank(i) == 1 + Cardinality({j \in hits : before(j, i)})
        n == Cardinality(hits)
        last == IF limit < n THEN limit ELSE n
    IN [total_count |-> n,
        top |-> [r \in 1..last |->
                   LET i == CHOOSE i \in hits : rank(i) = r
                   IN [score |-> sc(i), addr |-> i]]]

\* searcher.search(&query, &(Count, TopDocs::with_limit(limit).and_offset(offset))):
\* the number of matches and the page of (score, address) pairs, ordered by
\* score descending, then by address.  An address is the document's position
\* in the searcher.
Collect(fm, docs, q, limit, offset) ==
    LET hits == {i \in 1..Len(docs) : Matches(fm, q, docs[i].fv)}
        sc(i) == Score(fm, q, docs[i].fv)
        before(j, i) == sc(j) > sc(i) \/ (sc(j) = sc(i) /\ j < i)
        rank(i) == 1 + Cardinality({j \in hits : before(j, i)})
        n == Cardinality(hits)
        last == IF offset + limit < n THEN offset + limit ELSE n
    IN [total_count |-> n,
        top |-> [r \in 1..(IF last > offset THEN last - offset ELSE 0) |->
                   LET i == CHOOSE i \in hits : rank(i) = offset + r
                   IN [score |-> sc(i), addr |-> i]]]

\* searcher.doc(addr): the document store keeps the stored fields only.
StoredDoc(fm, fv) == [f \in {g \in DOMAIN fv : FdOf(fm, g).stored} |-> fv[f]]

\* The JSON object exec builds for one hit: every catalog field whose first
\* value is there and of the field's type, then _score.
ResultObject(fm, fv, score) ==
    LET has(name) ==
            /\ fm[name].field \in DOMAIN fv
            /\ fv[fm[name].field].ty =
                  (CASE fm[name].fd.field_type = "text" -> "Str"
                     [] fm[name].fd.field_type = "i64" -> "I64"
                     [] fm[name].fd.field_type = "f64" -> "F64")
        names == {name \in DOMAIN fm : has(name)}
    IN [key \in names \cup {"_score"} |->
          IF key = "_score" THEN [t |-> "score", n |-> score]
          ELSE (LET v == fv[fm[key].field]
                IN CASE v.ty = "Str" -> JString(v.s)
                     [] v.ty = "I64" -> JInt(v.i)
                     [] v.ty = "F64" -> JFloat(v.f))]

-----------------------------------------------------------------------------
(* The index session and the FFI calls on it.  A thread is "idle" between   *)
(* calls; inside a call it stands where the call next touches shared state. *)

NoCall == [op |-> "none"]
NoTop == [total_count |-> 0, top |-> <<>>]
Pending == [kind |-> "none"]
Ok == [kind |-> "ok"]
Err(msg) == [kind |-> "err", msg |-> msg]
Panic(at) == [kind |-> "panic", at |-> at]

EmptyDir == [dir |-> FALSE, sidecar |-> None, meta |-> None]

NoHist ==
    [okAdds |-> {}, committedOk |-> {},
     floor |-> [t \in Threads |-> {}],
     snap |-> [t \in Threads |-> <<>>],
     asked |-> [t \in Threads |-> NoCall],
     overlapped |-> [t \in Threads |-> FALSE],
     okSrc |-> <<>>,
     created |-> None,
     lost |-> None]

PagerOff == [state |-> "off"]

Ops(docs) == {docs[i].op : i \in 1..Len(docs)}

\* w.commit(): the buffered documents become part of the committed index.
WriterCommit(committed, buffered) == committed \o buffered

\* reader.reload(): a searcher over everything committed.
Reload(committed) == committed

\* A slip: exec asking the reader again each time it needs the searcher.
SearcherReacquired(t) == reader

\* The searcher exec works on: the one it acquired at its start.
Searcher(t) == held[t]

\* tantivy_add_doc, up to the writer lock: parse the text and map the object.
AddDocParse(t, text, maxAdds) ==
    /\ handle = "live" /\ pc[t] = "idle"
    /\ opstamp + Cardinality({u \in Threads : pc[u] = "add_write"}) < maxAdds
    /\ IF ParseDoc(text).some
       THEN /\ pc' = [pc EXCEPT ![t] = "add_write"]
            /\ call' = [call EXCEPT ![t] = [op |-> "add", src |-> ParseDoc(text).v,
                                            doc |-> MapDoc(field_map, ParseDoc(text).v)]]
            /\ ret' = [ret EXCEPT ![t] = Pending]
       ELSE /\ ret' = [ret EXCEPT ![t] = Err("doc")]
            /\ UNCHANGED <<pc, call>>
    /\ hist' = [hist EXCEPT !.asked[t] = [op |-> "add", text |-> text]]
    /\ UNCHANGED <<build, fs, disk, handle, field_map, search_fields, writer, wlock,
                   reader, opstamp, held, top, pager>>

\* tantivy_add_doc, under the writer lock: hand the document to the writer.
AddDocWrite(t) ==
    /\ handle = "live" /\ pc[t] = "add_write" /\ wlock = 0
    /\ writer' = Append(writer, [op |-> opstamp, fv |-> call[t].doc])
    /\ opstamp' = opstamp + 1
    /\ hist' = [hist EXCEPT !.okAdds = @ \cup {opstamp},
                            !.okSrc = Append(@, call[t].src)]
    /\ pc' = [pc EXCEPT ![t] = "idle"]
    /\ call' = [call EXCEPT ![t] = NoCall]
    /\ ret' = [ret EXCEPT ![t] = Ok]
    /\ UNCHANGED <<build, fs, disk, handle, field_map, search_fields, wlock, reader,
                   held, top, pager>>

\* tantivy_commit: take the writer lock and commit.
CommitWrite(t) ==
    /\ handle = "live" /\ pc[t] = "idle" /\ wlock = 0
    /\ wlock' = t
    /\ disk' = WriterCommit(disk, writer)
    /\ writer' = <<>>
    /\ pc' = [pc EXCEPT ![t] = "commit_reload"]
    /\ pager' = IF pager.state = "paging" THEN [pager EXCEPT !.committed = TRUE]
                ELSE pager
    /\ ret' = [ret EXCEPT ![t] = Pending]
    /\ hist' = [hist EXCEPT !.asked[t] = [op |-> "commit"]]
    /\ UNCHANGED <<build, fs, handle, field_map, search_fields, reader, opstamp,
                   call, held, top>>

\* tantivy_commit: reload the reader, release the lock, return 0.
CommitReload(t) ==
    /\ handle = "live" /\ pc[t] = "commit_reload"
    /\ reader' = Reload(disk)
    /\ wlock' = 0
    /\ pc' = [pc EXCEPT ![t] = "idle"]
    /\ ret' = [ret EXCEPT ![t] = Ok]
    /\ hist' = [hist EXCEPT !.committedOk = hist.okAdds,
                            !.overlapped = [u \in Threads |->
                                @[u] \/ pc[u] \in {"exec_collect", "exec_docs"}]]
    /\ pager' = IF pager.state = "paging" THEN [pager EXCEPT !.committed = TRUE]
                ELSE pager
    /\ UNCHANGED <<build, fs, disk, handle, field_map, search_fields, writer, opstamp,
                   call, held, top>>

\* ReloadPolicy::OnCommitWithDelay: the reader's watcher reloads it once it
\* sees a new commit in the directory.
WatcherReload ==
    /\ handle = "live" /\ reader # disk
    /\ reader' = Reload(disk)
    /\ UNCHANGED <<build, fs, disk, handle, field_map, search_fields, writer, wlock,
                   opstamp, pc, call, held, top, ret, hist, pager>>

\* A slip: the count read off the writer's side as well.
NumDocsWithBuffered == Len(reader) + Len(writer)

\* TantivyIndex::num_docs
NumDocsValue == Len(reader)

\* tantivy_num_docs
NumDocs(t) ==
    /\ handle = "live" /\ pc[t] = "idle"
    /\ ret' = [ret EXCEPT ![t] = [kind |-> "count", n |-> NumDocsValue]]
    /\ hist' = [hist EXCEPT !.asked[t] = [op |-> "num_docs"]]
    /\ UNCHANGED <<build, fs, disk, handle, field_map, search_fields, writer, wlock,
                   reader, opstamp, pc, call, held, top, pager>>

\* tantivy_search up to exec's first line: parse, compile, acquire a searcher.
SearchEnter(t, text) ==
    /\ handle = "live" /\ pc[t] = "idle"
    /\ LET qd == ParseQuery(text)
           b == BuildQuery(field_map, search_fields, build, qd.v)
       IN IF ~qd.some
          THEN /\ ret' = [ret EXCEPT ![t] = Err("query")]
               /\ hist' = [hist EXCEPT !.asked[t] = [op |-> "parse"]]
               /\ UNCHANGED <<handle, pc, call, held>>
          ELSE IF b.ok = "err"
          THEN /\ ret' = [ret EXCEPT ![t] = Err("compile")]
               /\ hist' = [hist EXCEPT !.asked[t] = [op |-> "compile", qd |-> qd.v]]
               /\ UNCHANGED <<handle, pc, call, held>>
          ELSE IF b.ok = "panic"
          THEN /\ ret' = [ret EXCEPT ![t] = Panic("build_query")]
               /\ handle' = "aborted"
               /\ hist' = [hist EXCEPT !.asked[t] = [op |-> "compile", qd |-> qd.v]]
               /\ UNCHANGED <<pc, call, held>>
          ELSE /\ held' = [held EXCEPT ![t] = reader]
               /\ call' = [call EXCEPT ![t] = [op |-> "search", qd |-> qd.v, q |-> b.q,
                                               limit |-> QLimit(qd.v),
                                               offset |-> QOffset(qd.v)]]
               /\ pc' = [pc EXCEPT ![t] = "exec_collect"]
               /\ hist' = [hist EXCEPT !.floor[t] = hist.committedOk,
                                       !.snap[t] = reader,
                                       !.asked[t] = [op |-> "search", qd |-> qd.v,
                                                     q |-> b.q,
                                                     limit |-> QLimit(qd.v),
                                                     offset |-> QOffset(qd.v)],
                                       !.overlapped[t] = FALSE]
               /\ ret' = [ret EXCEPT ![t] = Pending]
               /\ UNCHANGED handle
    /\ UNCHANGED <<build, fs, disk, field_map, search_fields, writer, wlock, reader,
                   opstamp, top>>

SearchBegin(t, text) == SearchEnter(t, text) /\ UNCHANGED pager

\* exec: build the collectors and run the query on the searcher.
ExecCollect(t) ==
    /\ handle = "live" /\ pc[t] = "exec_collect"
    /\ IF call[t].limit = 0
       THEN /\ ret' = [ret EXCEPT ![t] = Panic("TopDocs::with_limit")]
            /\ handle' = "aborted"
            /\ UNCHANGED <<pc, call, top>>
       ELSE IF QueryFails(field_map, call[t].q)
       THEN /\ ret' = [ret EXCEPT ![t] = Err("search")]
            /\ pc' = [pc EXCEPT ![t] = "idle"]
            /\ call' = [call EXCEPT ![t] = NoCall]
            /\ UNCHANGED <<handle, top>>
       ELSE /\ top' = [top EXCEPT ![t] = Collect(field_map, Searcher(t), call[t].q,
                                                 call[t].limit, call[t].offset)]
            /\ pc' = [pc EXCEPT ![t] = "exec_docs"]
            /\ UNCHANGED <<handle, call, ret>>
    /\ UNCHANGED <<build, fs, disk, field_map, search_fields, writer, wlock, reader,
                   opstamp, held, hist, pager>>

\* exec, lines 337-365: the response built from what was collected, each
\* hit's document fetched from the searcher.  `ops` is not part of the
\* response: it names the documents behind results.
Respond(fm, docs, collected, limit, offset) ==
    LET hits == collected.top
        results == [r \in 1..Len(hits) |->
                      ResultObject(fm, StoredDoc(fm, docs[hits[r].addr].fv), hits[r].score)]
    IN [kind |-> "results", results |-> results, count |-> Len(results),
        total_count |-> collected.total_count, limit |-> limit, offset |-> offset,
        ops |-> [r \in 1..Len(hits) |-> docs[hits[r].addr].op]]

\* exec: fetch each hit's stored document, build the JSON objects, return.
ExecDocs(t) ==
    /\ handle = "live" /\ pc[t] = "exec_docs"
    /\ ret' = [ret EXCEPT ![t] = Respond(field_map, Searcher(t), top[t],
                                         call[t].limit, call[t].offset)]
    /\ pc' = [pc EXCEPT ![t] = "idle"]
    /\ call' = [call EXCEPT ![t] = NoCall]
    /\ top' = [top EXCEPT ![t] = NoTop]
    /\ UNCHANGED <<build, fs, disk, handle, field_map, search_fields, writer, wlock,
                   reader, opstamp, held, hist, pager>>

\* A slip: the sidecar written without the search_fields key.
SidecarWithoutSearchFields(text) == [text EXCEPT !.search_fields = None]

\* std::fs::write(schema.json, schema_json): the text as it was given.
SidecarText(text) == text

\* What a session was created with: its catalog, its default search-field
\* set and the search_fields its schema listed.
Created(def, fm, sf) == Some([fm |-> fm, sf |-> Range(sf), given |-> def.search_fields])

\* A slip: the path left as it was.
DirKept(f) == f

\* std::fs::remove_dir_all(path): nothing of the directory is left.
RemoveDirAll(f) == EmptyDir

\* What a create that failed took away: the documents and the sidecar that
\* were at the path.
Lost(f, committed) == Some([docs |-> Len(committed), sidecar |-> f.sidecar.some])

\* TantivyIndex::create behind tantivy_create_index.
CreateIndex(t, text) ==
    /\ handle = "null" /\ \A u \in Threads : pc[u] = "idle"
    /\ disk' = <<>>
    /\ LET def == ParseSchemaDef(text)
           b == BuildSchema(def.def)
       IN IF ~def.ok \/ b.ok = "err"
          THEN /\ fs' = [RemoveDirAll(fs) EXCEPT !.dir = TRUE]
               /\ ret' = [ret EXCEPT ![t] = Err("schema")]
               /\ hist' = [hist EXCEPT !.asked[t] = [op |-> "create"],
                                       !.lost = Lost(fs, disk)]
               /\ UNCHANGED <<handle, field_map, search_fields>>
          ELSE IF b.ok = "panic"
          THEN /\ fs' = [RemoveDirAll(fs) EXCEPT !.dir = TRUE]
               /\ ret' = [ret EXCEPT ![t] = Panic("SchemaBuilder")]
               /\ handle' = "aborted"
               /\ hist' = [hist EXCEPT !.asked[t] = [op |-> "create"]]
               /\ UNCHANGED <<field_map, search_fields>>
          ELSE /\ fs' = [dir |-> TRUE, sidecar |-> Some(SidecarText(text)),
                          meta |-> Some(b.schema)]
               /\ handle' = "live"
               /\ field_map' = b.fm
               /\ search_fields' \in ResolveSearchFields(def.def, b.fm)
               /\ ret' = [ret EXCEPT ![t] = Ok]
               /\ hist' = [NoHist EXCEPT !.created =
                             Created(def.def, b.fm, search_fields'),
                                         !.asked[t] = [op |-> "create"]]
    /\ writer' = <<>> /\ reader' = <<>> /\ wlock' = 0 /\ opstamp' = 0
    /\ UNCHANGED <<build, pc, call, held, top, pager>>

\* TantivyIndex::open behind tantivy_open_index.
OpenIndex(t) ==
    /\ handle = "null" /\ \A u \in Threads : pc[u] = "idle"
    /\ IF ~fs.sidecar.some
       THEN /\ ret' = [ret EXCEPT ![t] = Err("read schema")]
            /\ UNCHANGED <<handle, field_map, search_fields, reader>>
       ELSE LET def == ParseSchemaDef(fs.sidecar.v)
                b == BuildSchema(def.def)
            IN IF ~def.ok \/ b.ok = "err"
               THEN /\ ret' = [ret EXCEPT ![t] = Err("schema")]
                    /\ UNCHANGED <<handle, field_map, search_fields, reader>>
               ELSE IF b.ok = "panic"
               THEN /\ ret' = [ret EXCEPT ![t] = Panic("SchemaBuilder")]
                    /\ handle' = "aborted"
                    /\ UNCHANGED <<field_map, search_fields, reader>>
               ELSE IF ~fs.meta.some
               THEN /\ ret' = [ret EXCEPT ![t] = Err("open")]
                    /\ UNCHANGED <<handle, field_map, search_fields, reader>>
               ELSE /\ handle' = "live"
                    /\ field_map' = b.fm
                    /\ search_fields' \in ResolveSearchFields(def.def, b.fm)
                    /\ reader' = Reload(disk)
                    /\ ret' = [ret EXCEPT ![t] = [kind |-> "opened"]]
    /\ writer' = <<>> /\ wlock' = 0
    /\ hist' = [hist EXCEPT !.asked[t] = [op |-> "open"]]
    /\ UNCHANGED <<build, fs, disk, opstamp, pc, call, held, top, pager>>

\* tantivy_free_index: the session goes, and with it whatever its writer
\* had buffered.
Release(t) ==
    /\ handle = "live" /\ \A u \in Threads : pc[u] = "idle"
    /\ handle' = "null"
    /\ writer' = <<>> /\ reader' = <<>>
    /\ field_map' = <<>> /\ search_fields' = <<>>
    /\ ret' = [ret EXCEPT ![t] = [kind |-> "released"]]
    /\ hist' = [hist EXCEPT !.asked[t] = [op |-> "release"]]
    /\ UNCHANGED <<build, fs, disk, wlock, opstamp, pc, call, held, top, pager>>

-----------------------------------------------------------------------------
(* A client that pages through one query on its own thread: it searches     *)
(* with limit L at offset 0, L, 2L, ... until the offset reaches the        *)
(* total_count of the page it has just read.                                *)

PagerThread == CHOOSE t \in Threads : \A u \in Threads : u <= t

WithPage(q, limit, offset) ==
    [k |-> "query", q |-> [q EXCEPT !.limit = Some(limit), !.offset = Some(offset)]]

PagerStart(q, L) ==
    /\ handle = "live" /\ pager.state = "off"
    /\ pager' = [state |-> "paging", q |-> q, L |-> L, offset |-> 0, got |-> <<>>,
                 waiting |-> FALSE, committed |-> wlock # 0, total |-> 0]
    /\ UNCHANGED <<build, fs, disk, handle, field_map, search_fields, writer, wlock,
                   reader, opstamp, pc, call, held, top, ret, hist>>

PagerIssue ==
    /\ pager.state = "paging" /\ ~pager.waiting
    /\ SearchEnter(PagerThread, WithPage(pager.q, pager.L, pager.offset))
    /\ pager' = [pager EXCEPT !.waiting = TRUE]

PagerAbsorb ==
    /\ handle = "live" /\ pager.state = "paging" /\ pager.waiting
    /\ pc[PagerThread] = "idle"
    /\ LET r == ret[PagerThread]
       IN IF r.kind # "results" THEN pager' = [pager EXCEPT !.state = "failed"]
          ELSE pager' = [pager EXCEPT
                           !.got = @ \o r.ops,
                           !.offset = @ + pager.L,
                           !.total = r.total_count,
                           !.waiting = FALSE,
                           !.state = IF pager.offset + pager.L >= r.total_count
                                     THEN "done" ELSE "paging"]
    /\ UNCHANGED <<build, fs, disk, handle, field_map, search_fields, writer, wlock,
                   reader, opstamp, pc, call, held, top, ret, hist>>

-----------------------------------------------------------------------------
(* Inputs.                                                                  *)

FieldJson(name, ty) ==
    [name |-> name, type |-> ty, stored |-> None, indexed |-> None, fast |-> None,
     tokenizer |-> None]

SchemaJson(fields, sf) == [k |-> "object", fields |-> fields, search_fields |-> sf]

DocObject(m) == [k |-> "object", m |-> m]
Malformed == [k |-> "malformed"]

QAll == [type |-> "all", limit |-> None, offset |-> None]
QRange(field, min, max) ==
    [type |-> "range_i64", field |-> field, min |-> min, max |-> max,
     limit |-> None, offset |-> None]
QTerm(field, value) ==
    [type |-> "term_match", field |-> field, value |-> value,
     limit |-> None, offset |-> None]
QBool(must, should, must_not) ==
    [type |-> "bool", must |-> must, should |-> should, must_not |-> must_not,
     limit |-> None, offset |-> None]
QFuzzy(term, distance, fields) ==
    [type |-> "fuzzy", term |-> term, distance |-> distance, fields |-> fields,
     limit |-> None, offset |-> None]

\* The state right after TantivyIndex::create returned a session for the
\* schema text on an empty path.
InitSession(text, builds) ==
    LET def == ParseSchemaDef(text).def
        b == BuildSchema(def)
    IN /\ build \in builds
       /\ fs = [dir |-> TRUE, sidecar |-> Some(SidecarText(text)), meta |-> Some(b.schema)]
       /\ disk = <<>>
       /\ handle = "live"
       /\ field_map = b.fm
       /\ search_fields \in ResolveSearchFields(def, b.fm)
       /\ writer = <<>> /\ wlock = 0 /\ reader = <<>> /\ opstamp = 0
       /\ pc = [t \in Threads |-> "idle"]
       /\ call = [t \in Threads |-> NoCall]
       /\ held = [t \in Threads |-> <<>>]
       /\ top = [t \in Threads |-> NoTop]
       /\ ret = [t \in Threads |-> Pending]
       /\ hist = [NoHist EXCEPT !.created = Created(def, b.fm, search_fields)]
       /\ pager = PagerOff

-----------------------------------------------------------------------------
(* Spec: one session used by two threads at once.                           *)

ViewsSchema == SchemaJson(<<FieldJson("views", "i64")>>, None)

ViewsDoc(n) == DocObject("views" :> JInt(I64Of(n)))

ConcDocs == {ViewsDoc(5), ViewsDoc(11), Malformed}

ConcQueries ==
    {WithPage(QRange("views", Some(I64Of(5)), Some(I64Of(10))), 2, 0), Malformed}

Init == InitSession(ViewsSchema, {"release"})

Next ==
    \/ \E t \in Threads, text \in ConcDocs : AddDocParse(t, text, MaxConcAdds)
    \/ \E t \in Threads : AddDocWrite(t)
    \/ \E t \in Threads : CommitWrite(t)
    \/ \E t \in Threads : CommitReload(t)
    \/ WatcherReload
    \/ \E t \in Threads : NumDocs(t)
    \/ \E t \in Threads, text \in ConcQueries : SearchBegin(t, text)
    \/ \E t \in Threads : ExecCollect(t)
    \/ \E t \in Threads : ExecDocs(t)

Spec == Init /\ [][Next]_vars

-----------------------------------------------------------------------------
(* SpecSeq: one thread adding, committing and searching with every kind of  *)
(* query, limit and offset.  SpecPage: one thread adding and committing     *)
(* while a client pages through a query.                                    *)

TagViewsSchema ==
    SchemaJson(<<[FieldJson("tag", "text") EXCEPT !.tokenizer = Some("raw")],
                 FieldJson("views", "i64")>>, None)

TagViewsDoc(tag, n) == DocObject(("tag" :> JString(tag)) @@ ("views" :> JInt(I64Of(n))))

SeqDocs == {TagViewsDoc(<<"a">>, 5), TagViewsDoc(<<"b">>, 7), TagViewsDoc(<<"a">>, 11)}

QViews5to10 == QRange("views", Some(I64Of(5)), Some(I64Of(10)))
QTagA == QTerm("tag", JString(<<"a">>))

BoolQueries ==
    {QBool(Some(<<QViews5to10>>), None, Some(<<QTagA>>)),
     QBool(Some(<<QAll>>), Some(<<QTagA>>), Some(<<>>)),
     QBool(None, Some(<<QViews5to10, QTagA>>),
           Some(<<QBool(Some(<<QViews5to10, QTagA>>), None, None)>>)),
     QBool(None, Some(<<QBool(Some(<<QAll>>), None, Some(<<QTagA>>)), QTagA>>), None),
     QBool(None, None, Some(<<QTagA>>)),
     QBool(None, None, None)}

SeqBaseQueries == {QAll, QViews5to10, QTerm("nofield", JNull)} \cup BoolQueries

\* (limit, offset) as given in the query JSON; a key may be absent.
PageOpts ==
    {<<None, None>>, <<Some(0), Some(0)>>, <<Some(1), None>>, <<Some(2), Some(1)>>,
     <<Some(1), Some(3)>>}

SeqQueries ==
    {[k |-> "query", q |-> [q EXCEPT !.limit = lo[1], !.offset = lo[2]]] :
        q \in {QAll, QViews5to10}, lo \in PageOpts}
    \cup {[k |-> "query", q |-> q] : q \in SeqBaseQueries} \cup {Malformed}

Caller == CHOOSE t \in Threads : \A u \in Threads : t <= u

InitSeq == InitSession(TagViewsSchema, {"release"})

NextSeq ==
    \/ \E text \in SeqDocs : AddDocParse(Caller, text, MaxSeqAdds)
    \/ AddDocWrite(Caller)
    \/ CommitWrite(Caller)
    \/ CommitReload(Caller)
    \/ WatcherReload
    \/ \E text \in SeqQueries : SearchBegin(Caller, text)
    \/ ExecCollect(Caller)
    \/ ExecDocs(Caller)

SpecSeq == InitSeq /\ [][NextSeq]_vars

PageQueries == {QAll, QViews5to10, QBool(Some(<<QAll>>), Some(<<QTagA>>), Some(<<>>))}

NextPage ==
    \/ \E text \in SeqDocs : AddDocParse(Caller, text, MaxAdds)
    \/ AddDocWrite(Caller)
    \/ CommitWrite(Caller)
    \/ CommitReload(Caller)
    \/ WatcherReload
    \/ \E q \in PageQueries, L \in 1..MaxPage : PagerStart(q, L)
    \/ PagerIssue
    \/ ExecCollect(PagerThread)
    \/ ExecDocs(PagerThread)
    \/ PagerAbsorb

SpecPage == InitSeq /\ [][NextPage]_vars

-----------------------------------------------------------------------------
(* SpecRange: one thread adding, committing and searching with range_i64    *)
(* queries whose bounds and the documents' values reach the ends of i64, in *)
(* a build with overflow checks ("debug") or without ("release").           *)

I64Extremes == {I64Min, I64Max}

RangeVals == {I64Of(4), I64Of(5), I64Of(10), I64Of(11)} \cup I64Extremes

RangeDocs == {DocObject("views" :> JInt(v)) : v \in RangeVals}

RangeBounds == {None} \cup {Some(v) : v \in {I64Of(5), I64Of(10)} \cup I64Extremes}

RangeQueries ==
    {[k |-> "query", q |-> QRange("views", lo, hi)] : lo \in RangeBounds, hi \in RangeBounds}

InitRange == InitSession(ViewsSchema, {"debug", "release"})

NextRange ==
    \/ \E text \in RangeDocs : AddDocParse(Caller, text, MaxRangeAdds)
    \/ AddDocWrite(Caller)
    \/ CommitWrite(Caller)
    \/ CommitReload(Caller)
    \/ WatcherReload
    \/ \E text \in RangeQueries : SearchBegin(Caller, text)
    \/ ExecCollect(Caller)
    \/ ExecDocs(Caller)

SpecRange == InitRange /\ [][NextRange]_vars

-----------------------------------------------------------------------------
(* SpecMatch: one thread adding, committing and searching with term_match   *)
(* queries on a raw text field, a default-tokenized text field, an i64 and  *)
(* an f64 field, with values of every JSON type.                            *)

MatchSchema ==
    SchemaJson(<<[FieldJson("tag", "text") EXCEPT !.tokenizer = Some("raw")],
                 FieldJson("body", "text"),
                 FieldJson("views", "i64"),
                 FieldJson("price", "f64")>>, None)

MatchDoc(tag, body, views, halves) ==
    DocObject(("tag" :> JString(tag)) @@ ("body" :> JString(body))
              @@ ("views" :> JInt(I64Of(views))) @@ ("price" :> JFloat(F64Fin(halves))))

MatchDocs ==
    {MatchDoc(<<"a">>, <<"H", "i", " ", "y", "o">>, 0, 0),
     MatchDoc(<<"b">>, <<"h", "i">>, 5, 5),
     MatchDoc(<<"a">>, <<"y", "o">>, 7, 14)}

MatchQueries ==
    {[k |-> "query", q |-> QTerm(fv[1], fv[2])] : fv \in
        {<<"tag", JString(<<"a">>)>>, <<"tag", JInt(I64Of(5))>>,
         <<"body", JString(<<"h", "i">>)>>, <<"body", JString(<<"H", "i", " ", "y", "o">>)>>,
         <<"views", JInt(I64Of(5))>>, <<"views", JString(<<"a">>)>>,
         <<"views", JFloat(F64Fin(10))>>, <<"views", JNull>>,
         <<"price", JFloat(F64Fin(5))>>, <<"price", JInt(I64Of(7))>>,
         <<"price", JBool(TRUE)>>, <<"nofield", JString(<<"a">>)>>}}

InitMatch == InitSession(MatchSchema, {"release"})

NextMatch ==
    \/ \E text \in MatchDocs : AddDocParse(Caller, text, MaxMatchAdds)
    \/ AddDocWrite(Caller)
    \/ CommitWrite(Caller)
    \/ CommitReload(Caller)
    \/ WatcherReload
    \/ \E text \in MatchQueries : SearchBegin(Caller, text)
    \/ ExecCollect(Caller)
    \/ ExecDocs(Caller)

SpecMatch == InitMatch /\ [][NextMatch]_vars

-----------------------------------------------------------------------------
(* SpecFuzzy: one thread adding, committing and searching with fuzzy        *)
(* queries: every term of up to MaxTermLen characters over a small          *)
(* alphabet, some longer words, and distances absent, 0, 1 and 3.           *)

BodySchema == SchemaJson(<<FieldJson("body", "text")>>, None)

BodyDoc(body) == DocObject("body" :> JString(body))

FuzzyDocs == {BodyDoc(<<"h", "e", "l", "l", "o">>), BodyDoc(<<"a", "b">>)}

TermChars == {"a", "B", " ", "e/"}

FuzzyTerms ==
    SeqsUpTo(TermChars, MaxTermLen) \cup
    {<<"h", "e", "l", "o">>, <<"h", "e/", "l", "l", "o">>,
     <<"h", "e", "l", "l", "o", "s">>, <<"a", " ", "h", "e", "l", "o", "!">>}

FuzzyDistances == {None, Some(0), Some(1), Some(3)}

FuzzyQueries ==
    {[k |-> "query", q |-> QFuzzy(term, d, None)] : term \in FuzzyTerms, d \in FuzzyDistances}
    \cup {[k |-> "query", q |-> QFuzzy(<<"h", "e", "l", "o">>, None,
                                       Some(<<"nofield", "body">>))]}

InitFuzzy == InitSession(BodySchema, {"release"})

NextFuzzy ==
    \/ \E text \in FuzzyDocs : AddDocParse(Caller, text, MaxFuzzyAdds)
    \/ AddDocWrite(Caller)
    \/ CommitWrite(Caller)
    \/ CommitReload(Caller)
    \/ WatcherReload
    \/ \E text \in FuzzyQueries : SearchBegin(Caller, text)
    \/ ExecCollect(Caller)
    \/ ExecDocs(Caller)

SpecFuzzy == InitFuzzy /\ [][NextFuzzy]_vars

-----------------------------------------------------------------------------
(* SpecLife: one path on which a session is created, written to, released   *)
(* and opened again, for schemas with and without search_fields, with raw,  *)
(* stemmed and unindexed text fields, and for schemas create refuses.       *)

LifeFields ==
    <<FieldJson("title", "text"),
      [FieldJson("tag", "text") EXCEPT !.tokenizer = Some("raw")],
      [FieldJson("views", "i64") EXCEPT !.stored = Some(FALSE), !.fast = Some(TRUE)]>>

LifeSchemas ==
    {SchemaJson(LifeFields, None),
     SchemaJson(LifeFields, Some(<<"tag", "nofield", "views">>)),
     SchemaJson(<<FieldJson("title", "text"),
                  [FieldJson("body", "text") EXCEPT !.tokenizer = Some("en_stem")]>>, None),
     SchemaJson(<<[FieldJson("note", "text") EXCEPT !.indexed = Some(FALSE)]>>, None),
     SchemaJson(<<FieldJson("title", "text"), FieldJson("blob", "bytes")>>, None),
     SchemaJson(<<FieldJson("title", "text"), FieldJson("title", "i64")>>, None),
     Malformed}

LifeDocs == {DocObject("title" :> JString(<<"a">>))}

InitLife ==
    /\ build = "release"
    /\ fs = EmptyDir /\ disk = <<>>
    /\ handle = "null"
    /\ field_map = <<>> /\ search_fields = <<>>
    /\ writer = <<>> /\ wlock = 0 /\ reader = <<>> /\ opstamp = 0
    /\ pc = [t \in Threads |-> "idle"]
    /\ call = [t \in Threads |-> NoCall]
    /\ held = [t \in Threads |-> <<>>]
    /\ top = [t \in Threads |-> NoTop]
    /\ ret = [t \in Threads |-> Pending]
    /\ hist = NoHist
    /\ pager = PagerOff

NextLife ==
    \/ \E text \in LifeSchemas : CreateIndex(Caller, text)
    \/ \E text \in LifeDocs : AddDocParse(Caller, text, MaxLifeAdds)
    \/ AddDocWrite(Caller)
    \/ CommitWrite(Caller)
    \/ CommitReload(Caller)
    \/ WatcherReload
    \/ Release(Caller)
    \/ OpenIndex(Caller)

SpecLife == InitLife /\ [][NextLife]_vars

-----------------------------------------------------------------------------
(* SpecDoc: one thread adding and committing documents whose keys are there *)
(* or not and whose values are of every JSON type, numbers beyond i64       *)
(* included, and texts that are not a JSON object.                          *)

DocSchema ==
    SchemaJson(<<FieldJson("title", "text"), FieldJson("views", "i64"),
                 FieldJson("price", "f64")>>, None)

Absent == [t |-> "absent"]

DocChoices ==
    [title : {Absent, JString(<<"a">>), JInt(I64Of(5)), JNull},
     views : {Absent, JInt(I64Of(5)), JInt(I64Max), JFloat(F64Fin(5)), JFloat(F64Fin(-5)),
              JFloat(F64PosHuge), JFloat(F64NegHuge), JBigUint, JString(<<"a">>),
              JBool(TRUE)},
     price : {Absent, JFloat(F64Fin(5)), JInt(I64Of(7)), JBigUint, JString(<<"a">>)},
     extra : {Absent, JArray}]

DocOf(c) == DocObject([key \in {k \in DOMAIN c : c[k] # Absent} |-> c[key]])

NotAnObject == [k |-> "value"]

DocTexts == {DocOf(c) : c \in DocChoices} \cup {Malformed, NotAnObject}

InitDoc == InitSession(DocSchema, {"release"})

NextDoc ==
    \/ \E text \in DocTexts : AddDocParse(Caller, text, MaxDocAdds)
    \/ AddDocWrite(Caller)
    \/ CommitWrite(Caller)
    \/ CommitReload(Caller)
    \/ WatcherReload
    \/ NumDocs(Caller)

SpecDoc == InitDoc /\ [][NextDoc]_vars

-----------------------------------------------------------------------------
(* SpecTrip: one thread adding and committing partial documents over a      *)
(* catalog with stored and unstored fields, one of them named _score, and   *)
(* reading them back with searches.                                         *)

TripSchema ==
    SchemaJson(<<[FieldJson("title", "text") EXCEPT !.tokenizer = Some("raw")],
                 FieldJson("views", "i64"),
                 [FieldJson("note", "text") EXCEPT !.stored = Some(FALSE)],
                 FieldJson("_score", "text")>>, None)

TripChoices ==
    [title : {Absent, JString(<<"a">>), JInt(I64Of(5))},
     views : {Absent, JInt(I64Of(42)), JFloat(F64Fin(5)), JString(<<"a">>)},
     note : {Absent, JString(<<"b">>)},
     _score : {Absent, JString(<<"a">>)}]

TripDocs == {DocOf(c) : c \in TripChoices}

TripQueries ==
    {[k |-> "query", q |-> q] : q \in {QAll, QTerm("title", JString(<<"a">>))}}

InitTrip == InitSession(TripSchema, {"release"})

NextTrip ==
    \/ \E text \in TripDocs : AddDocParse(Caller, text, MaxTripAdds)
    \/ AddDocWrite(Caller)
    \/ CommitWrite(Caller)
    \/ CommitReload(Caller)
    \/ WatcherReload
    \/ \E text \in TripQueries : SearchBegin(Caller, text)
    \/ ExecCollect(Caller)
    \/ ExecDocs(Caller)

SpecTrip == InitTrip /\ [][NextTrip]_vars

-----------------------------------------------------------------------------
(* Properties of the session under Spec.                                    *)

\* exec as one function of the searcher it works on.
Exec(fm, docs, q, limit, offset) ==
    Respond(fm, docs, Collect(fm, docs, q, limit, offset), limit, offset)

\* C1: whenever no commit is under way, num_docs is the number of documents
\* whose add_document returned ok before the most recent commit that returned
\* ok: documents added since (or whose add failed) do not count, and the
\* visible documents are exactly those.
C1_NumDocsCountsCommitted ==
    (handle = "live" /\ wlock = 0) =>
        /\ NumDocsValue = Cardinality(hist.committedOk)
        /\ Ops(reader) = hist.committedOk

\* C1's case: one document committed, a second one added and not committed,
\* an add of malformed JSON refused, and num_docs read as 1.
C1_Witness ==
    /\ handle = "live" /\ wlock = 0
    /\ Cardinality(hist.committedOk) = 1 /\ Cardinality(hist.okAdds) = 2
    /\ ret[1] = Err("doc")
    /\ ret[2] = [kind |-> "count", n |-> 1]

\* C2: a read that starts after a commit returned ok sees every document
\* added before that commit; and a search computes total_count, hits and
\* stored documents from the one searcher it acquired when it started,
\* whatever commits complete meanwhile.
C2_SnapshotIsolation ==
    handle = "live" =>
        /\ hist.committedOk \subseteq Ops(reader)
        /\ \A t \in Threads :
              /\ pc[t] \in {"exec_collect", "exec_docs"} =>
                    hist.floor[t] \subseteq Ops(held[t])
              /\ pc[t] = "exec_docs" =>
                    top[t] = Collect(field_map, hist.snap[t], hist.asked[t].q,
                                     hist.asked[t].limit, hist.asked[t].offset)
              /\ (pc[t] = "idle" /\ ret[t].kind = "results") =>
                    /\ hist.floor[t] \subseteq Ops(hist.snap[t])
                    /\ ret[t] = Exec(field_map, hist.snap[t], hist.asked[t].q,
                                     hist.asked[t].limit, hist.asked[t].offset)

\* C2's case: a search that began after one commit had returned, during which
\* another commit completed that added a match, and which still returned the
\* earlier count.
C2_Witness ==
    \E t \in Threads :
        /\ handle = "live" /\ pc[t] = "idle" /\ ret[t].kind = "results"
        /\ hist.overlapped[t] /\ hist.floor[t] # {}
        /\ ret[t].total_count = 1 /\ ret[t].count = 1
        /\ Collect(field_map, reader, hist.asked[t].q, hist.asked[t].limit,
                   hist.asked[t].offset).total_count = 2

-----------------------------------------------------------------------------
(* Properties of paging and of search responses, under SpecPage and SpecSeq. *)

\* The positions in docs of the documents the query matches.
MatchingIn(fm, docs, q) == {i \in 1..Len(docs) : Matches(fm, q, docs[i].fv)}

C4_EverySearchResponds ==
    \A t \in Threads :
        (hist.asked[t].op = "search" /\ ret[t].kind \in {"results", "panic"}) =>
            /\ ret[t].kind = "results"
            /\ ret[t].count = Len(ret[t].results)
            /\ ret[t].count <= hist.asked[t].limit
            /\ ret[t].total_count >= ret[t].count
            /\ ret[t].total_count =
                  Cardinality(MatchingIn(field_map, hist.snap[t], hist.asked[t].q))

\* Every bool node of a query with the engine query compiled from it.
RECURSIVE BoolPairs(_, _)
BoolPairs(qd, q) ==
    IF qd.type # "bool" THEN {}
    ELSE LET subs == qd.must \o qd.should \o qd.must_not
         IN {[qd |-> qd, q |-> q]} \cup
            UNION {BoolPairs(subs[i], q.clauses[i].q) :
                      i \in 1..(IF Len(subs) < Len(q.clauses) THEN Len(subs)
                                ELSE Len(q.clauses))}

\* Whether a document matches some sub-query listed in must_not.
HitsMustNot(qd, fv) ==
    \E j \in 1..Len(qd.must_not) :
        Matches(field_map, BuildQuery(field_map, search_fields, build, qd.must_not[j]).q, fv)

\* C6: for every bool node of a searched query, at any depth, the compiled
\* query has one clause per listed sub-query (an empty list adds none), it
\* matches no document that matches a must_not sub-query, and no such
\* document is among the results of a bool query.
C6_MustNotExcludes ==
    \A t \in Threads :
        (handle = "live" /\ hist.asked[t].op = "search") =>
            LET a == hist.asked[t]
                docs == hist.snap[t] \o disk \o writer
            IN /\ \A p \in BoolPairs(a.qd, a.q) :
                     /\ Len(p.q.clauses) =
                           Len(p.qd.must) + Len(p.qd.should) + Len(p.qd.must_not)
                     /\ \A i \in 1..Len(docs) :
                           Matches(field_map, p.q, docs[i].fv) =>
                               ~HitsMustNot(p.qd, docs[i].fv)
               /\ (a.qd.type = "bool" /\ pc[t] = "idle" /\ ret[t].kind = "results") =>
                     \A r \in 1..Len(ret[t].ops) :
                        \A i \in 1..Len(hist.snap[t]) :
                           hist.snap[t][i].op = ret[t].ops[r] =>
                               ~HitsMustNot(a.qd, hist.snap[t][i].fv)

\* C6's case: must = [views in 5..10], must_not = [tag a] searched over one
\* document matching both and one matching only the must: the second alone
\* is returned.
C6_Witness ==
    \E t \in Threads :
        /\ handle = "live" /\ pc[t] = "idle" /\ ret[t].kind = "results"
        /\ hist.asked[t].qd.type = "bool"
        /\ Len(hist.asked[t].qd.must) = 1 /\ Len(hist.asked[t].qd.must_not) = 1
        /\ hist.asked[t].qd.should = <<>>
        /\ Len(hist.snap[t]) = 2
        /\ \E i \in 1..2 :
              /\ Matches(field_map, hist.asked[t].q.clauses[1].q, hist.snap[t][i].fv)
              /\ HitsMustNot(hist.asked[t].qd, hist.snap[t][i].fv)
        /\ ret[t].count = 1 /\ ret[t].total_count = 1

\* min <= v <= max, an omitted bound unbounded.
InRange(min, max, v) ==
    /\ ~min.some \/ I64Le(min.v, v)
    /\ ~max.some \/ I64Le(v, max.v)

\* C5: a range_i64 query always compiles and runs, and it returns exactly
\* the documents of the snapshot whose value v has min <= v <= max (an
\* omitted bound unbounded), for every v, min and max of i64, its largest
\* and smallest values included.
C5_RangeInclusive ==
    \A t \in Threads :
        LET a == hist.asked[t]
        IN /\ ~(a.op = "compile" /\ a.qd.type = "range_i64" /\ ret[t].kind = "panic")
           /\ (a.op = "search" /\ a.qd.type = "range_i64"
                  /\ pc[t] = "idle" /\ ret[t].kind = "results") =>
                 LET docs == hist.snap[t]
                     f == field_map[a.qd.field].field
                     m == {i \in 1..Len(docs) :
                             InRange(a.qd.min, a.qd.max, docs[i].fv[f].i)}
                 IN /\ Range(ret[t].ops) = {docs[i].op : i \in m}
                    /\ ret[t].total_count = Cardinality(m)

\* Whether a JSON value is of a field's declared type, and whether a stored
\* value equals it.
TypeAgrees(fd, V) ==
    CASE fd.field_type = "text" -> V.t = "string"
      [] fd.field_type = "i64" -> V.t = "int"
      [] fd.field_type = "f64" -> V.t \in {"int", "u64", "float"}

HoldsValue(fd, v, V) ==
    /\ TypeAgrees(fd, V)
    /\ CASE fd.field_type = "text" -> v = VStr(V.s)
         [] fd.field_type = "i64" -> v = VI64(V.i)
         [] fd.field_type = "f64" -> v = VF64(AsF64(V).v)

\* C7: a term_match query on a field that is not in the catalog is not run;
\* one that answers returns exactly the documents of the snapshot whose
\* value for the field equals the query's value (no document does when the
\* value is not of the field's type), and its total_count is their number.
C7_TermMatchExact ==
    \A t \in Threads :
        LET a == hist.asked[t]
        IN (a.op = "search" /\ a.qd.type = "term_match") =>
              /\ a.qd.field \in DOMAIN field_map
              /\ (pc[t] = "idle" /\ ret[t].kind = "results") =>
                    LET docs == hist.snap[t]
                        fd == field_map[a.qd.field].fd
                        f == field_map[a.qd.field].field
                        m == {i \in 1..Len(docs) :
                                /\ f \in DOMAIN docs[i].fv
                                /\ HoldsValue(fd, docs[i].fv[f], a.qd.value)}
                    IN /\ Range(ret[t].ops) = {docs[i].op : i \in m}
                       /\ ret[t].total_count = Cardinality(m)

\* The tokens of a term: split at whitespace, lower-cased, non-alphanumeric
\* characters removed, tokens of fewer than two characters discarded.
CharWords(term) ==
    LET raw == SplitWhitespace(term)
        clean == [i \in 1..Len(raw) |->
                    FilterSeq(ToLowercase(raw[i]),
                              {c \in Range(ToLowercase(raw[i])) : IsAlphanumeric(c)})]
    IN FilterSeq(clean, {w \in Range(clean) : Len(w) > 1})

\* min(1, d) for a token of at most 5 characters, d for a longer one.
CharDist(word, d) == IF Len(word) <= 5 THEN (IF d < 1 THEN d ELSE 1) ELSE d

\* C8: a fuzzy query always compiles, and into one required clause per token
\* of two characters or more, each the alternative over the resolved fields
\* of a fuzzy match of the token at distance min(1, d) when the token has at
\* most 5 characters and d when it has more; with no token left, into a query
\* without clauses.
C8_FuzzyCompiles ==
    \A t \in Threads :
        LET a == hist.asked[t]
        IN /\ ~(a.op = "compile" /\ a.qd.type = "fuzzy")
           /\ (a.op = "search" /\ a.qd.type = "fuzzy") =>
                 LET f == ResolveFields(field_map, search_fields, a.qd.fields)
                     w == CharWords(a.qd.term)
                     alt(word) ==
                        [j \in 1..Len(f) |->
                           Clause("Should",
                                  [k |-> "FuzzyTermQuery", field |-> f[j], text |-> word,
                                   distance |-> CharDist(word, a.qd.distance),
                                   transposition_cost_one |-> TRUE])]
                 IN a.q = BooleanQuery([i \in 1..Len(w) |->
                                          Clause("Must", BooleanQuery(alt(w[i])))])

\* The default search-field set of a catalog: the listed fields it has, or,
\* none being listed, its text fields that are indexed and not raw.
DefaultSearchSet(fm, given) ==
    IF given # <<>>
    THEN {fm[name].field : name \in Range(given) \cap DOMAIN fm}
    ELSE {fm[name].field : name \in
            {nm \in DOMAIN fm : /\ fm[nm].fd.field_type = "text"
                                /\ fm[nm].fd.indexed
                                /\ fm[nm].fd.tokenizer # "raw"}}

\* C9: a session on a path, whether the one create returned or one opened
\* after any adds, commits and a release, has the catalog create built
\* (names, types, flags, tokenizers) and the same default search-field set:
\* the listed search_fields, or else the indexed, not raw, text fields.
C9_OpenRestoresCatalog ==
    handle = "live" =>
        /\ hist.created.some
        /\ field_map = hist.created.v.fm
        /\ Range(search_fields) = hist.created.v.sf
        /\ Range(search_fields) = DefaultSearchSet(field_map, hist.created.v.given)

\* C9's case: a session opened on a path whose session, created with listed
\* search_fields and a raw text field, had a document committed before it
\* was released.
C9_Witness ==
    /\ handle = "live" /\ ret[Caller] = [kind |-> "opened"]
    /\ Len(disk) = 1 /\ reader = disk
    /\ hist.created.v.given # <<>>
    /\ Cardinality(DOMAIN field_map) = 3
    /\ Cardinality(Range(search_fields)) = 2

\* Whether a JSON value's type fits a field: a string for text, a number
\* for i64 and f64.
Fits(fd, val) ==
    IF fd.field_type = "text" THEN val.t = "string"
    ELSE val.t \in {"int", "u64", "float"}

\* Whether v is the given value as the field's type: the string, the
\* integer, the number truncated toward zero for a float given to an i64
\* field, the number as a float for an f64 field.
StoredAsGiven(fd, val, v) ==
    CASE fd.field_type = "text" -> v = VStr(val.s)
      [] fd.field_type = "i64" ->
            \/ val.t = "int" /\ v = VI64(val.i)
            \/ /\ val.t = "float" /\ val.f.cls = "fin"
               /\ v = VI64(I64Of(IF val.f.h >= 0 THEN val.f.h \div 2
                                  ELSE -((-val.f.h) \div 2)))
      [] fd.field_type = "f64" -> v = VF64(AsF64(val).v)

\* C10: add_document answers ok for a JSON object and an error for every
\* other text; every ok add has put exactly one document into the index,
\* holding for each key of the object that names a catalog field and whose
\* value fits the field that value (a float for an i64 field truncated
\* toward zero), and nothing else.
C10_AddDocLenient ==
    /\ \A t \in Threads :
          (hist.asked[t].op = "add" /\ pc[t] = "idle") =>
              ret[t] = IF hist.asked[t].text.k = "object" THEN Ok ELSE Err("doc")
    /\ LET all == disk \o writer
       IN /\ Len(all) = Len(hist.okSrc)
          /\ \A i \in 1..Len(all) :
                LET src == hist.okSrc[all[i].op + 1]
                    fv == all[i].fv
                    kept == {name \in DOMAIN src \cap DOMAIN field_map :
                               Fits(field_map[name].fd, src[name])}
                IN /\ DOMAIN fv = {field_map[name].field : name \in kept}
                   /\ \A name \in kept :
                         StoredAsGiven(field_map[name].fd, src[name],
                                       fv[field_map[name].field])

\* Whether the JSON value j of a result object is the value val that was
\* added, as the field's type holds it: the string, the integer (a float
\* given to an i64 field truncated toward zero), the number as a float.
CameBack(fd, val, j) ==
    CASE fd.field_type = "text" -> j = JString(val.s)
      [] fd.field_type = "i64" ->
            \/ val.t = "int" /\ j = JInt(val.i)
            \/ /\ val.t = "float" /\ val.f.cls = "fin"
               /\ j = JInt(I64Of(IF val.f.h >= 0 THEN val.f.h \div 2
                                  ELSE -((-val.f.h) \div 2)))
      [] fd.field_type = "f64" -> j = JFloat(AsF64(val).v)

\* C11: every result object of a search holds, for each stored catalog
\* field for which the document was added with a value that fits the field,
\* that field's name with the value that was added; the key _score with the
\* hit's score; and no other key.
C11_ResultsRoundTrip ==
    \A t \in Threads :
        (hist.asked[t].op = "search" /\ pc[t] = "idle" /\ ret[t].kind = "results") =>
            \A r \in 1..Len(ret[t].results) :
                LET obj == ret[t].results[r]
                    src == hist.okSrc[ret[t].ops[r] + 1]
                    doc == CHOOSE d \in Range(hist.snap[t]) : d.op = ret[t].ops[r]
                    kept == {name \in DOMAIN src \cap DOMAIN field_map :
                               /\ field_map[name].fd.stored
                               /\ Fits(field_map[name].fd, src[name])}
                IN /\ DOMAIN obj = kept \cup {"_score"}
                   /\ \A name \in kept : CameBack(field_map[name].fd, src[name], obj[name])
                   /\ obj["_score"] =
                         [t |-> "score", n |-> Score(field_map, hist.asked[t].q, doc.fv)]

\* Whether a schema text is one create accepts.
Compiles(text) ==
    /\ ParseSchemaDef(text).ok
    /\ BuildSchema(ParseSchemaDef(text).def).ok = "ok"

\* C12: a sidecar at the path is always the text of a schema that compiled;
\* and from a create that failed with a schema error until a create that
\* succeeds, the path holds no sidecar, no index and no document of the
\* index that was there before, and no session is opened on it: an open
\* that was tried has failed.
C12_FailedCreateWipes ==
    /\ fs.sidecar.some => Compiles(fs.sidecar.v)
    /\ \A t \in Threads :
          (hist.asked[t].op = "create" /\ ret[t] = Err("schema")) => hist.lost.some
    /\ hist.lost.some =>
          /\ ~fs.sidecar.some /\ ~fs.meta.some /\ disk = <<>>
          /\ handle # "live"
          /\ \A t \in Threads :
                hist.asked[t].op = "open" => ret[t] = Err("read schema")

\* C12's case: a path that held a sidecar and a committed document, a
\* create on it that failed with a schema error, and an open tried after it
\* that failed.
C12_Witness ==
    /\ hist.lost = Some([docs |-> 1, sidecar |-> TRUE])
    /\ hist.asked[Caller].op = "open"
    /\ ret[Caller] = Err("read schema")
    /\ handle = "null"

====
